---- MODULE Spec2Model ----
(***************************************************************************)
(* State-space graph generator of the sliding-block puzzle (src/game.rs,   *)
(* src/bidirectional_list.rs, src/main.rs).                                *)
(*                                                                         *)
(* A GameSpecification is a record                                         *)
(*   [dimensions |-> <<width, height>>,                                    *)
(*    pieces |-> sequence of [size |-> <<w, h>>, position |-> <<x, y>>,    *)
(*                            moves |-> <<horizontal, vertical>>]]         *)
(* and a GameConfiguration is the sequence of the pieces' positions.       *)
(* Rust's 0-based indices are kept: node ids, piece_idx and bitmap indices *)
(* start at 0; element i of a Vec is element i + 1 of the TLA+ sequence.   *)
(* Option<T> is a sequence of length at most one: None == <<>>,            *)
(* Some(v) == <<v>>.                                                       *)
(***************************************************************************)
EXTENDS Integers, Sequences, FiniteSets, TLC

VARIABLES specification, nodes, edges, queue, board, step,
          pc, idx, piece_idx, dir, failure, output

vars == <<specification, nodes, edges, queue, board, step,
          pc, idx, piece_idx, dir, failure, output>>

----------------------------------------------------------------------------
(* Bounds of the checked inputs and the program's constant.                *)

\* widest one-row board of the small specifications
MaxW == 3
\* number of columns of the two-row boards beyond the long piece's 8
PlayW == 2
\* the literal of the occupied-cell assertion in visit_node
ExpectedCells == 18

None == <<>>
Some(v) == <<v>>

Min(S) == CHOOSE m \in S : \A n \in S : m <= n

----------------------------------------------------------------------------
(* BidirectionalList<T>: index (Vec) and inverse_index (HashMap).          *)

BidirectionalList_default == [index |-> <<>>, inverse_index |-> <<>>]

len(list) == Len(list.index)

\* push with the new value stored in front of the Vec instead of at its end.
push_front(list, value) ==
    LET i == Len(list.index)
    IN [list |-> [index |-> <<value>> \o list.index,
                  inverse_index |-> (value :> i) @@ list.inverse_index],
        idx |-> i]

\* push returning the id of a value it already holds instead of appending.
push_known_value(list, value) ==
    IF value \in DOMAIN list.inverse_index
    THEN [list |-> list, idx |-> list.inverse_index[value]]
    ELSE LET i == Len(list.index)
         IN [list |-> [index |-> Append(list.index, value),
                       inverse_index |-> (value :> i) @@ list.inverse_index],
             idx |-> i]

push(list, value) ==
    LET i == Len(list.index)
    IN [list |-> [index |-> Append(list.index, value),
                  inverse_index |-> (value :> i) @@ list.inverse_index],
        idx |-> i]

get(list, i) ==
    IF i < Len(list.index) THEN Some(list.index[i + 1]) ELSE None

get_index(list, value) ==
    IF value \in DOMAIN list.inverse_index
    THEN Some(list.inverse_index[value]) ELSE None

----------------------------------------------------------------------------
(* GameBoard: a row-major bitmap of width * height cells.                  *)

GameBoard_new(dimensions) ==
    [bitmap |-> [i \in 0..(dimensions[1] * dimensions[2] - 1) |-> FALSE],
     width |-> dimensions[1],
     height |-> dimensions[2]]

clear(b) == [b EXCEPT !.bitmap = [i \in DOMAIN b.bitmap |-> FALSE]]

\* The k-th cell written by place (x outer loop, y inner loop), as a
\* bitmap index.
place_index(b, piece, position, k) ==
    ((k \div piece.size[2]) + position[1])
        + ((k % piece.size[2]) + position[2]) * b.width

\* place: marks the footprint; an index outside the bitmap panics, after
\* the cells before it have been written. (written ranges over the one set
\* of written indices, so that it is evaluated once.)
place(b, piece, position) ==
    LET n == piece.size[1] * piece.size[2]
        bad == {k \in 0..(n - 1) :
                    place_index(b, piece, position, k) \notin DOMAIN b.bitmap}
        stop == IF bad = {} THEN n ELSE Min(bad)
    IN CHOOSE result \in
        {[board |-> [b EXCEPT !.bitmap =
                        [i \in DOMAIN b.bitmap |-> b.bitmap[i] \/ i \in written]],
          ok |-> bad = {}] :
            written \in {{place_index(b, piece, position, k) :
                              k \in 0..(stop - 1)}}} : TRUE

\* is_rect_clear, cell by cell in loop order: "clear" (true), "blocked"
\* (false), "assert" (assert!(x < self.width) fails) or "index" (a read
\* outside the bitmap).
RECURSIVE rect_scan(_, _, _, _)
rect_scan(b, position, size, k) ==
    IF k >= size[1] * size[2] THEN "clear"
    ELSE LET x == (k \div size[2]) + position[1]
             y == (k % size[2]) + position[2]
         IN IF ~(x < b.width) THEN "assert"
            ELSE IF (x + y * b.width) \notin DOMAIN b.bitmap THEN "index"
            ELSE IF b.bitmap[x + y * b.width] THEN "blocked"
            ELSE rect_scan(b, position, size, k + 1)

\* is_rect_clear that looks at the first cell of the rectangle only.
is_rect_clear_first_cell(b, position, size) ==
    rect_scan(b, position, <<1, 1>>, 0)

is_rect_clear(b, position, size) == rect_scan(b, position, size, 0)

\* self.board.bitmap.iter().filter(|d| **d).count()
occupied_count(b) == Cardinality({i \in DOMAIN b.bitmap : b.bitmap[i]})

----------------------------------------------------------------------------
(* GameSpecification                                                       *)

as_configuration(spec) ==
    [i \in 1..Len(spec.pieces) |-> spec.pieces[i].position]

----------------------------------------------------------------------------
(* The specifications the runs start from.                                 *)

Flags == BOOLEAN \X BOOLEAN

\* One or two 1x1 pieces on a W x 1 board, W <= MaxW.
SmallPieces(W) ==
    {[size |-> <<1, 1>>, position |-> <<x, 0>>, moves |-> m] :
        x \in 0..(W - 1), m \in Flags}

SmallSpecifications ==
    UNION {{[dimensions |-> <<W, 1>>, pieces |-> ps] :
                ps \in {<<p>> : p \in SmallPieces(W)}
                       \cup {<<p, q>> : p \in SmallPieces(W), q \in SmallPieces(W)}} :
           W \in 1..MaxW}

\* Two-row boards of 8 + PlayW columns: a long piece two rows high that
\* slides horizontally, and one or two small pieces around the right edge
\* (inside the board, on the long piece, or past the edge).
LongPieces ==
    {[size |-> <<w, 2>>, position |-> <<x, 0>>, moves |-> <<TRUE, FALSE>>] :
        w \in {7, 8}, x \in {0, 1}}

Movers ==
    {[size |-> s, position |-> <<x, y>>, moves |-> m] :
        s \in {<<1, 1>>, <<2, 1>>, <<1, 2>>},
        x \in 7..(8 + PlayW), y \in 0..1, m \in Flags}

LargeSpecifications ==
    {[dimensions |-> <<8 + PlayW, 2>>, pieces |-> ps] :
        ps \in {<<l, a>> : l \in LongPieces, a \in Movers}
               \cup {<<l, a, c>> : l \in LongPieces, a \in Movers, c \in Movers}}

Specifications == SmallSpecifications \cup LargeSpecifications

----------------------------------------------------------------------------
(* GraphGenerator                                                          *)

\* GraphGenerator::new
GraphGenerator_new(spec) ==
    LET pushed == push(BidirectionalList_default, as_configuration(spec))
    IN [specification |-> spec,
        nodes |-> pushed.list,
        edges |-> {},
        queue |-> <<pushed.idx>>,
        board |-> GameBoard_new(spec.dimensions)]

\* The pair stored in argument order, without min and max.
edge_as_given(a, b) == <<a, b>>

\* The canonical pair an edge is stored as (line 143).
edge_of(a, b) == <<IF a <= b THEN a ELSE b, IF a <= b THEN b ELSE a>>

\* enqueue_configuration without the lookup: every candidate is pushed.
enqueue_without_lookup(ns, q, es, configuration, neighbor) ==
    LET pushed == push(ns, configuration)
    IN [nodes |-> pushed.list,
        queue |-> Append(q, pushed.idx),
        edges |-> es \cup {edge_of(pushed.idx, neighbor)}]

\* enqueue_configuration pushing the id onto the work list whether or not
\* the configuration was known.
enqueue_known_again(ns, q, es, configuration, neighbor) ==
    LET found == get_index(ns, configuration)
        pushed == push(ns, configuration)
        i == IF found # None THEN found[1] ELSE pushed.idx
    IN [nodes |-> IF found # None THEN ns ELSE pushed.list,
        queue |-> Append(q, i),
        edges |-> es \cup {edge_of(i, neighbor)}]

\* enqueue_configuration recording the edge only for a configuration it
\* has just interned.
enqueue_edge_when_new(ns, q, es, configuration, neighbor) ==
    LET found == get_index(ns, configuration)
        pushed == push(ns, configuration)
    IN [nodes |-> IF found # None THEN ns ELSE pushed.list,
        queue |-> IF found # None THEN q ELSE Append(q, pushed.idx),
        edges |-> IF found # None THEN es
                  ELSE es \cup {edge_of(pushed.idx, neighbor)}]

\* GraphGenerator::enqueue_configuration
enqueue_configuration(ns, q, es, configuration, neighbor) ==
    LET found == get_index(ns, configuration)
        pushed == push(ns, configuration)
        i == IF found # None THEN found[1] ELSE pushed.idx
    IN [nodes |-> IF found # None THEN ns ELSE pushed.list,
        queue |-> IF found # None THEN q ELSE Append(q, pushed.idx),
        edges |-> es \cup {edge_of(i, neighbor)}]

\* visit_node, lines 148-157: the cleared board with the pieces placed in
\* list order; the first panicking place stops the loop. (r ranges over
\* the one result of place, so that it is evaluated once.)
RECURSIVE place_all(_, _, _, _)
place_all(b, pieces, positions, i) ==
    IF i > Len(pieces) \/ i > Len(positions) THEN [board |-> b, ok |-> TRUE]
    ELSE CHOOSE result \in
            {IF r.ok THEN place_all(r.board, pieces, positions, i + 1) ELSE r :
                r \in {place(b, pieces[i], positions[i])}} : TRUE

\* The flags read the other way round: vertical for left and right.
move_allowed_swapped(piece, d) == IF d < 2 THEN piece.moves[2] ELSE piece.moves[1]

\* The four candidates of one piece, in the order of the code:
\* 0 left, 1 right, 2 up, 3 down.
move_allowed(piece, d) == IF d < 2 THEN piece.moves[1] ELSE piece.moves[2]

\* The bounds test with <= where the code has <.
move_in_bounds_inclusive(b, piece, position, d) ==
    CASE d = 0 -> position[1] > 0
      [] d = 1 -> position[1] + piece.size[1] <= b.width
      [] d = 2 -> position[2] > 0
      [] d = 3 -> position[2] + piece.size[2] <= b.height

\* The bounds test that precedes is_rect_clear (the left operand of &&).
move_in_bounds(b, piece, position, d) ==
    CASE d = 0 -> position[1] > 0
      [] d = 1 -> position[1] + piece.size[1] < b.width
      [] d = 2 -> position[2] > 0
      [] d = 3 -> position[2] + piece.size[2] < b.height

\* The strip handed to is_rect_clear: <<position, size>>.
move_strip(piece, position, d) ==
    CASE d = 0 -> <<<<position[1] - 1, position[2]>>, <<1, piece.size[2]>>>>
      [] d = 1 -> <<<<position[1] + piece.size[1], position[2]>>, <<1, piece.size[2]>>>>
      [] d = 2 -> <<<<position[1], position[2] - 1>>, <<piece.size[1], 1>>>>
      [] d = 3 -> <<<<position[1], position[2] + piece.size[2]>>, <<piece.size[1], 1>>>>

move_target(position, d) ==
    CASE d = 0 -> <<position[1] - 1, position[2]>>
      [] d = 1 -> <<position[1] + 1, position[2]>>
      [] d = 2 -> <<position[1], position[2] - 1>>
      [] d = 3 -> <<position[1], position[2] + 1>>

\* The outcome of one candidate test: "skip" (flag off or bounds test
\* false), or the result of is_rect_clear.
move_test(b, piece, position, d) ==
    IF ~move_allowed(piece, d) THEN "skip"
    ELSE IF ~move_in_bounds(b, piece, position, d) THEN "skip"
    ELSE LET s == move_strip(piece, position, d)
         IN is_rect_clear(b, s[1], s[2])

TypeOK ==
    /\ specification \in Specifications
    /\ pc \in {"loop", "check", "moves", "returned", "printed", "aborted"}
    /\ failure \in {"none", "index", "assert_eq", "assert"}
    /\ dir \in 0..3
    /\ piece_idx \in 0..Len(specification.pieces)

Init ==
    /\ specification \in Specifications
    /\ LET g == GraphGenerator_new(specification)
       IN /\ nodes = g.nodes
          /\ edges = g.edges
          /\ queue = g.queue
          /\ board = g.board
    /\ step = 0
    /\ pc = "loop"
    /\ idx = 0
    /\ piece_idx = 0
    /\ dir = 0
    /\ failure = "none"
    /\ output = <<>>

\* Pop taking either end of the work list.
Pop_either_end ==
    /\ pc = "loop"
    /\ queue # <<>>
    /\ \E k \in {1, Len(queue)} :
          LET i == queue[k]
              configuration == get(nodes, i)[1]
              r == place_all(clear(board), specification.pieces, configuration, 1)
          IN /\ idx' = i
             /\ board' = r.board
             /\ pc' = IF r.ok THEN "check" ELSE "aborted"
             /\ failure' = IF r.ok THEN failure ELSE "index"
             /\ queue' = SubSeq(queue, 1, k - 1) \o SubSeq(queue, k + 1, Len(queue))
    /\ step' = step + 1
    /\ piece_idx' = 0
    /\ dir' = 0
    /\ UNCHANGED <<specification, nodes, edges, output>>

\* Pop taking the first id of the work list (a queue, not a stack).
Pop_first_id ==
    /\ pc = "loop"
    /\ queue # <<>>
    /\ LET i == queue[1]
           configuration == get(nodes, i)[1]
           r == place_all(clear(board), specification.pieces, configuration, 1)
       IN /\ idx' = i
          /\ board' = r.board
          /\ pc' = IF r.ok THEN "check" ELSE "aborted"
          /\ failure' = IF r.ok THEN failure ELSE "index"
    /\ step' = step + 1
    /\ queue' = SubSeq(queue, 2, Len(queue))
    /\ piece_idx' = 0
    /\ dir' = 0
    /\ UNCHANGED <<specification, nodes, edges, output>>

\* generate, lines 244-256, and visit_node, lines 147-157: pop the last id
\* of the work list, clear the board and place the pieces of its
\* configuration. step is a u32; a run adds one per visited node and the
\* runs checked here stay far below 2^32.
Pop ==
    /\ pc = "loop"
    /\ queue # <<>>
    /\ LET i == queue[Len(queue)]
           configuration == get(nodes, i)[1]
           r == place_all(clear(board), specification.pieces, configuration, 1)
       IN /\ idx' = i
          /\ board' = r.board
          /\ pc' = IF r.ok THEN "check" ELSE "aborted"
          /\ failure' = IF r.ok THEN failure ELSE "index"
    /\ step' = step + 1
    /\ queue' = SubSeq(queue, 1, Len(queue) - 1)
    /\ piece_idx' = 0
    /\ dir' = 0
    /\ UNCHANGED <<specification, nodes, edges, output>>

\* visit_node, line 159: assert_eq!(18, occupied cells).
Check ==
    /\ pc = "check"
    /\ IF occupied_count(board) = ExpectedCells
       THEN /\ pc' = IF Len(specification.pieces) = 0 THEN "loop" ELSE "moves"
            /\ failure' = failure
       ELSE /\ pc' = "aborted"
            /\ failure' = "assert_eq"
    /\ UNCHANGED <<specification, nodes, edges, queue, board, step,
                   idx, piece_idx, dir, output>>

\* Move starting the piece loop again after the last candidate.
Move_restarting ==
    /\ pc = "moves"
    /\ LET configuration == get(nodes, idx)[1]
           piece == specification.pieces[piece_idx + 1]
           position == configuration[piece_idx + 1]
           t == move_test(board, piece, position, dir)
           candidate == [configuration EXCEPT ![piece_idx + 1] = move_target(position, dir)]
           e == enqueue_configuration(nodes, queue, edges, candidate, idx)
           last == (dir = 3 /\ piece_idx + 1 = Len(specification.pieces))
       IN /\ IF t = "clear"
             THEN /\ nodes' = e.nodes
                  /\ queue' = e.queue
                  /\ edges' = e.edges
             ELSE UNCHANGED <<nodes, queue, edges>>
          /\ IF t \in {"assert", "index"}
             THEN /\ pc' = "aborted"
                  /\ failure' = t
                  /\ UNCHANGED <<piece_idx, dir>>
             ELSE /\ pc' = "moves"
                  /\ failure' = failure
                  /\ dir' = IF dir = 3 THEN 0 ELSE dir + 1
                  /\ piece_idx' = IF last THEN 0
                                  ELSE IF dir = 3 THEN piece_idx + 1 ELSE piece_idx
    /\ UNCHANGED <<specification, board, step, idx, output>>

\* visit_node, lines 161-234: one candidate (piece_idx, dir) of the visited
\* configuration.
Move ==
    /\ pc = "moves"
    /\ LET configuration == get(nodes, idx)[1]
           piece == specification.pieces[piece_idx + 1]
           position == configuration[piece_idx + 1]
           t == move_test(board, piece, position, dir)
           candidate == [configuration EXCEPT ![piece_idx + 1] = move_target(position, dir)]
           e == enqueue_configuration(nodes, queue, edges, candidate, idx)
           last == (dir = 3 /\ piece_idx + 1 = Len(specification.pieces))
       IN /\ IF t = "clear"
             THEN /\ nodes' = e.nodes
                  /\ queue' = e.queue
                  /\ edges' = e.edges
             ELSE UNCHANGED <<nodes, queue, edges>>
          /\ IF t \in {"assert", "index"}
             THEN /\ pc' = "aborted"
                  /\ failure' = t
                  /\ UNCHANGED <<piece_idx, dir>>
             ELSE /\ pc' = IF last THEN "loop" ELSE "moves"
                  /\ failure' = failure
                  /\ dir' = IF dir = 3 THEN 0 ELSE dir + 1
                  /\ piece_idx' = IF dir = 3 /\ ~last THEN piece_idx + 1 ELSE piece_idx
    /\ UNCHANGED <<specification, board, step, idx, output>>

\* generate, lines 244 and 259: the work list is empty, Ok is returned.
Return ==
    /\ pc = "loop"
    /\ queue = <<>>
    /\ pc' = "returned"
    /\ UNCHANGED <<specification, nodes, edges, queue, board, step,
                   idx, piece_idx, dir, failure, output>>

\* BTreeSet iteration order: pairs in ascending lexicographic order.
edge_less(e, f) == e[1] < f[1] \/ (e[1] = f[1] /\ e[2] < f[2])

RECURSIVE sorted_edges(_)
sorted_edges(es) ==
    IF es = {} THEN <<>>
    ELSE CHOOSE sorted \in
            {<<m>> \o sorted_edges(es \ {m}) :
                m \in {e \in es : \A f \in es \ {e} : edge_less(e, f)}} : TRUE

\* main, lines 22-24: one line "a,b" per edge.
PrintEdges ==
    /\ pc = "returned"
    /\ output' = sorted_edges(edges)
    /\ pc' = "printed"
    /\ UNCHANGED <<specification, nodes, edges, queue, board, step,
                   idx, piece_idx, dir, failure>>

Next == Pop \/ Check \/ Move \/ Return \/ PrintEdges

Spec == Init /\ [][Next]_vars

\* A removal that also discards the ids pushed after the one it takes.
PopAny_dropping ==
    /\ pc = "loop"
    /\ queue # <<>>
    /\ \E k \in 1..Len(queue) :
          LET i == queue[k]
              configuration == get(nodes, i)[1]
              r == place_all(clear(board), specification.pieces, configuration, 1)
          IN /\ idx' = i
             /\ board' = r.board
             /\ pc' = IF r.ok THEN "check" ELSE "aborted"
             /\ failure' = IF r.ok THEN failure ELSE "index"
             /\ queue' = SubSeq(queue, 1, k - 1)
    /\ step' = step + 1
    /\ piece_idx' = 0
    /\ dir' = 0
    /\ UNCHANGED <<specification, nodes, edges, output>>

\* generate with another work-list discipline: line 255 takes the last id;
\* here any waiting id is removed (first in first out and every other
\* order are among the choices). The visit that follows is that of Pop.
PopAny ==
    /\ pc = "loop"
    /\ queue # <<>>
    /\ \E k \in 1..Len(queue) :
          LET i == queue[k]
              configuration == get(nodes, i)[1]
              r == place_all(clear(board), specification.pieces, configuration, 1)
          IN /\ idx' = i
             /\ board' = r.board
             /\ pc' = IF r.ok THEN "check" ELSE "aborted"
             /\ failure' = IF r.ok THEN failure ELSE "index"
             /\ queue' = SubSeq(queue, 1, k - 1) \o SubSeq(queue, k + 1, Len(queue))
    /\ step' = step + 1
    /\ piece_idx' = 0
    /\ dir' = 0
    /\ UNCHANGED <<specification, nodes, edges, output>>

NextAnyOrder == PopAny \/ Check \/ Move \/ Return \/ PrintEdges

\* The specifications the runs in arbitrary order start from: those in which
\* at most one piece after the first has a movement flag on (the number of
\* visiting orders grows with the factorial of the graph's size).
OrderSpecifications ==
    {s \in Specifications :
        Cardinality({i \in 2..Len(s.pieces) :
                        s.pieces[i].moves # <<FALSE, FALSE>>}) <= 1}

InitAnyOrder == Init /\ specification \in OrderSpecifications

SpecAnyOrder == InitAnyOrder /\ [][NextAnyOrder]_vars

\* The program runs on: generate's loop and main's printing are sequential
\* code, so a step that can be taken is taken.
FairSpec == Spec /\ WF_vars(Next)

\* BidirectionalList used on its own: a caller pushes values of its choice,
\* repeated ones included, onto a list that starts empty; idx holds the id
\* the call returned. MaxPush bounds the number of calls.
MaxPush == 4

PushValues == {<<<<x, 0>>>> : x \in 0..(MaxW - 1)}

InitPush ==
    /\ specification = [dimensions |-> <<MaxW, 1>>, pieces |-> <<>>]
    /\ nodes = BidirectionalList_default
    /\ edges = {}
    /\ queue = <<>>
    /\ board = GameBoard_new(<<MaxW, 1>>)
    /\ step = 0
    /\ pc = "loop"
    /\ idx = 0
    /\ piece_idx = 0
    /\ dir = 0
    /\ failure = "none"
    /\ output = <<>>

Push ==
    /\ len(nodes) < MaxPush
    /\ \E value \in PushValues :
          LET pushed == push(nodes, value)
          IN /\ nodes' = pushed.list
             /\ idx' = pushed.idx
    /\ UNCHANGED <<specification, edges, queue, board, step, pc,
                   piece_idx, dir, failure, output>>

NextPush == Push

PushSpec == InitPush /\ [][NextPush]_vars

----------------------------------------------------------------------------
(* The puzzle's rules as spec.md states them (sections 3, 4.3 and the      *)
(* glossary), on cells <<x, y>> and not on the bitmap: what the claims     *)
(* compare the generator with.                                             *)

Pieces == specification.pieces
Width == specification.dimensions[1]
Height == specification.dimensions[2]
PieceIds == 1..Len(Pieces)
Directions == 0..3

InitialConfiguration == [i \in PieceIds |-> Pieces[i].position]

Interned == {nodes.index[i] : i \in 1..Len(nodes.index)}
NodeIds == 0..(Len(nodes.index) - 1)
Config(i) == nodes.index[i + 1]
Ended == pc \in {"returned", "printed"}

\* The cells a piece covers at a position.
Footprint(piece, position) ==
    {<<x, y>> : x \in position[1]..(position[1] + piece.size[1] - 1),
                y \in position[2]..(position[2] + piece.size[2] - 1)}

InsideBoard(piece, position) ==
    /\ position[1] >= 0 /\ position[1] + piece.size[1] <= Width
    /\ position[2] >= 0 /\ position[2] + piece.size[2] <= Height

Occupied(c) == UNION {Footprint(Pieces[i], c[i]) : i \in PieceIds}

AreaSum == LET RECURSIVE sum(_)
               sum(i) == IF i = 0 THEN 0
                         ELSE Pieces[i].size[1] * Pieces[i].size[2] + sum(i - 1)
           IN sum(Len(Pieces))

\* Every piece inside the board and no two footprints sharing a cell.
WellFormed(c) ==
    /\ \A i \in PieceIds : InsideBoard(Pieces[i], c[i])
    /\ \A i, j \in PieceIds :
          i # j => Footprint(Pieces[i], c[i]) \cap Footprint(Pieces[j], c[j]) = {}

Shift(position, d) ==
    CASE d = 0 -> <<position[1] - 1, position[2]>>
      [] d = 1 -> <<position[1] + 1, position[2]>>
      [] d = 2 -> <<position[1], position[2] - 1>>
      [] d = 3 -> <<position[1], position[2] + 1>>

Opposite(d) == CASE d = 0 -> 1 [] d = 1 -> 0 [] d = 2 -> 3 [] d = 3 -> 2

Slide(c, p, d) == [c EXCEPT ![p] = Shift(c[p], d)]

\* Section 4.3: the axis is enabled for the piece, the destination keeps
\* the piece within the grid, and the cells newly entered are unoccupied.
SlideLegal(c, p, d) ==
    /\ IF d < 2 THEN Pieces[p].moves[1] ELSE Pieces[p].moves[2]
    /\ InsideBoard(Pieces[p], Shift(c[p], d))
    /\ (Footprint(Pieces[p], Shift(c[p], d)) \ Footprint(Pieces[p], c[p]))
           \cap Occupied(c) = {}

Neighbours(c) ==
    {Slide(c, p, d) : <<p, d>> \in {m \in PieceIds \X Directions : SlideLegal(c, m[1], m[2])}}

RECURSIVE Closure(_, _)
Closure(seen, frontier) ==
    IF frontier = {} THEN seen
    ELSE LET new == (UNION {Neighbours(c) : c \in frontier}) \ seen
         IN Closure(seen \cup new, new)

Reachable == Closure({InitialConfiguration}, {InitialConfiguration})

IdOf(c) == nodes.inverse_index[c]

----------------------------------------------------------------------------
(* C1..C10                                                                 *)

\* C1: when generate has returned, every configuration reachable from the
\* initial configuration by legal slides is interned, and every legal slide
\* between reachable configurations is in the edge set as its canonical
\* pair.
C1_GenerateComplete ==
    Ended =>
        /\ Reachable \subseteq Interned
        /\ \A c \in Reachable : \A d \in Neighbours(c) :
              d \in Interned /\ edge_of(IdOf(c), IdOf(d)) \in edges

\* C1 on runs whose initial configuration is well formed: the same
\* statement, and the interner holds nothing but the reachable
\* configurations.
C1_WellFormedComplete ==
    (Ended /\ WellFormed(InitialConfiguration)) =>
        /\ Reachable = Interned
        /\ \A c \in Reachable : \A d \in Neighbours(c) :
              edge_of(IdOf(c), IdOf(d)) \in edges

C1_WellFormedWitness ==
    /\ Ended /\ WellFormed(InitialConfiguration)
    /\ Len(nodes.index) >= 6
    /\ Cardinality(edges) >= Len(nodes.index)

\* C2: every recorded edge joins two configurations that differ by one
\* unit slide of one piece along an axis enabled for it, legal from either
\* end.
C2_EdgesAreSlides ==
    \A e \in edges :
        \E p \in PieceIds, d \in Directions :
            /\ Config(e[2]) = Slide(Config(e[1]), p, d)
            /\ SlideLegal(Config(e[1]), p, d)
            /\ SlideLegal(Config(e[2]), p, Opposite(d))

\* C2 on runs whose initial configuration is well formed.
C2_WellFormedEdges == WellFormed(InitialConfiguration) => C2_EdgesAreSlides

\* C3: every stored edge <<a, b>> has a < b < count(), and so has every
\* printed line.
C3_EdgesCanonical ==
    /\ \A e \in edges : 0 <= e[1] /\ e[1] < e[2] /\ e[2] < len(nodes)
    /\ \A i \in 1..Len(output) : output[i][1] < output[i][2]

C3_Witness ==
    /\ pc = "printed"
    /\ Cardinality(edges) >= 3
    /\ Len(output) = Cardinality(edges)

\* C4: after placement the run goes on to generate moves exactly when the
\* occupied cells number the sum of the pieces' areas, and aborts on the
\* count otherwise.
C4_AreaCheck ==
    /\ pc = "moves" => occupied_count(board) = AreaSum
    /\ failure = "assert_eq" => occupied_count(board) # AreaSum

\* What the code checks instead: the count against the literal.
C4_LiteralCheck ==
    /\ pc = "moves" => occupied_count(board) = ExpectedCells
    /\ failure = "assert_eq" => occupied_count(board) # ExpectedCells

\* C5: a visit whose configuration has a piece past the board extent
\* aborts and generates no move, and a specification whose initial
\* configuration has such a piece never gets a second node or an edge.
C5_OutOfBoundsAborts ==
    /\ pc = "moves" =>
          \A i \in PieceIds : InsideBoard(Pieces[i], Config(idx)[i])
    /\ (\E i \in PieceIds : ~InsideBoard(Pieces[i], InitialConfiguration[i])) =>
          (Len(nodes.index) = 1 /\ edges = {})

\* The state part of C6: index and inverse_index are inverse bijections,
\* and enqueue_configuration of an interned configuration changes neither
\* the interner nor the work list and records the edge to its existing id.
C6_InternerInv ==
    /\ \A i, j \in NodeIds : Config(i) = Config(j) => i = j
    /\ DOMAIN nodes.inverse_index = Interned
    /\ \A i \in NodeIds : get_index(nodes, Config(i)) = Some(i)
    /\ \A c \in Interned : get(nodes, get_index(nodes, c)[1]) = Some(c)
    /\ \A c \in Interned :
          LET r == enqueue_configuration(nodes, queue, edges, c, idx)
              i == CHOOSE k \in NodeIds : Config(k) = c
          IN /\ r.nodes = nodes
             /\ r.queue = queue
             /\ r.edges = edges \cup {edge_of(i, idx)}

\* C6: the interner is a bijection between ids and configurations in
\* every reachable state, an assigned id keeps its configuration for the
\* rest of the run, and handling a configuration that is already interned
\* returns its existing id and leaves count() unchanged.
C6_Interner ==
    /\ []C6_InternerInv
    /\ [][\A i \in NodeIds : get(nodes', i) = get(nodes, i)]_vars

C6_Witness ==
    /\ Ended
    /\ Len(nodes.index) >= 4
    /\ Cardinality(edges) >= Len(nodes.index)

\* The state part of C7: id 0 is the initial configuration and get
\* returns a value exactly for the ids below count().
C7_DenseInv ==
    /\ get(nodes, 0) = Some(InitialConfiguration)
    /\ \A i \in 0..(len(nodes) + 2) : (get(nodes, i) # None) <=> (i < len(nodes))

\* C7: ids are dense and given in first-seen order from 0: get is defined
\* exactly on 0..count()-1, id 0 is the initial configuration, and each
\* newly discovered configuration is appended with the id count() had
\* before it.
C7_DenseIds ==
    /\ []C7_DenseInv
    /\ [][nodes' # nodes =>
            \E c \in DOMAIN nodes'.inverse_index :
                /\ c \notin Interned
                /\ nodes'.index = Append(nodes.index, c)
                /\ get_index(nodes', c) = Some(len(nodes))]_vars

C7_Witness ==
    /\ Ended
    /\ Len(nodes.index) >= 5

\* C8: a well-formed specification with no legal slide from its initial
\* configuration completes with one node and no edge.
C8_NoSlide ==
    (WellFormed(InitialConfiguration) /\ Neighbours(InitialConfiguration) = {}) =>
        /\ pc # "aborted"
        /\ Len(nodes.index) = 1
        /\ edges = {}

\* C9: a W x 1 board with one 1x1 piece at x = 0 that slides horizontally
\* completes with the W configurations x = 0..W-1 and the W-1 edges
\* between neighbouring x.
C9_Row ==
    (/\ Height = 1 /\ Len(Pieces) = 1
     /\ Pieces[1].size = <<1, 1>> /\ Pieces[1].position = <<0, 0>>
     /\ Pieces[1].moves[1]) =>
        /\ pc # "aborted"
        /\ Ended =>
              /\ Len(nodes.index) = Width
              /\ Interned = {<< <<x, 0>> >> : x \in 0..(Width - 1)}
              /\ edges = {edge_of(IdOf(<< <<x, 0>> >>), IdOf(<< <<x + 1, 0>> >>)) :
                              x \in 0..(Width - 2)}

\* C10: two 1x1 pieces sliding horizontally in the one row of a W x 1
\* board keep their order, and on the 2 x 1 board with starts x = 0 and
\* x = 1 the run completes with 2 configurations and 1 edge.
C10_NoPassing ==
    (/\ Height = 1 /\ Len(Pieces) = 2
     /\ \A i \in PieceIds : Pieces[i].size = <<1, 1>> /\ Pieces[i].moves[1]
     /\ Pieces[1].position[1] < Pieces[2].position[1]) =>
        /\ \A c \in Interned : c[1][1] < c[2][1]
        /\ (Width = 2) =>
              /\ pc # "aborted"
              /\ Ended => (Len(nodes.index) = 2 /\ Cardinality(edges) = 1)

----------------------------------------------------------------------------
(* C11..C20                                                                *)

Stopped == pc \in {"printed", "aborted"}

\* C11: the traversal is deterministic: a state that has not stopped has a
\* successor, and no step has an alternative, so the run (node count, ids,
\* edge set) is a function of the specification.
C11_Deterministic ==
    /\ [](~Stopped => ENABLED Next)
    /\ [][\A v \in {vars'} : ~ENABLED (Next /\ vars' # v)]_vars

C11_Witness ==
    /\ pc = "loop"
    /\ Len(queue) >= 2
    /\ Cardinality(edges) >= 3

\* The board visit_node builds for a configuration, and the candidates it
\* hands to enqueue_configuration: a function of the configuration alone.
BoardOf(c) ==
    place_all(GameBoard_new(specification.dimensions), Pieces, c, 1).board

VisitTargets(c) ==
    {[c EXCEPT ![m[1]] = move_target(c[m[1]], m[2])] :
        m \in {n \in PieceIds \X Directions :
                  move_test(BoardOf(c), Pieces[n[1]], c[n[1]], n[2]) = "clear"}}

RECURSIVE VisitClosure(_, _)
VisitClosure(seen, frontier) ==
    IF frontier = {} THEN seen
    ELSE LET new == (UNION {VisitTargets(c) : c \in frontier}) \ seen
         IN VisitClosure(seen \cup new, new)

EdgePairs == {{Config(e[1]), Config(e[2])} : e \in edges}

\* C12: whatever order the work list is emptied in, a run that returns has
\* interned the same set of configurations and recorded the same edges as
\* unordered pairs of configurations: the closure of the initial
\* configuration under the visits, and every visit's candidates.
C12_OrderIndependent ==
    Ended =>
        /\ Interned = VisitClosure({InitialConfiguration}, {InitialConfiguration})
        /\ EdgePairs = UNION {{{c, t} : t \in VisitTargets(c)} : c \in Interned}

\* A returned run in which the first visit discovered every other node and
\* the last node visited is not id 1, the one stack order visits last.
C12_Witness ==
    /\ Ended
    /\ Len(nodes.index) >= 3
    /\ \A i \in NodeIds \ {0} : Config(i) \in VisitTargets(Config(0))
    /\ idx # 1

\* C13: generate eventually stops, by returning once the work list is
\* empty or by aborting.
C13_Terminates == <>(pc \in {"returned", "aborted"})

C13_Witness ==
    /\ pc = "returned"
    /\ step >= 4
    /\ queue = <<>>

\* C14: push appends unconditionally: it returns the count before the call,
\* the count grows by one, the earlier ids keep their values, the value is
\* found again under the returned id, and a value that was already present
\* gets a second id different from its first.
C14_PushAppends ==
    [][/\ idx' = len(nodes)
       /\ len(nodes') = len(nodes) + 1
       /\ \A i \in 0..(len(nodes) - 1) : get(nodes', i) = get(nodes, i)
       /\ get_index(nodes', get(nodes', idx')[1]) = Some(idx')
       /\ LET before == get_index(nodes, get(nodes', idx')[1])
          IN before # None =>
                /\ before[1] # idx'
                /\ get(nodes', before[1]) = get(nodes', idx')]_vars

\* A value pushed twice holds two ids, and the lookup gives the later one.
C14_Witness ==
    \E i, j \in 0..(len(nodes) - 1) :
        /\ i < j
        /\ get(nodes, i) = get(nodes, j)
        /\ get_index(nodes, get(nodes, j)[1]) = Some(j)
        /\ idx = j

\* C15: the work list is a stack: ids wait in the order they were pushed,
\* a push goes on top, and a pop takes the top, so the ids a visit
\* discovers are visited before the ids that were waiting, the one
\* discovered last first.
C15_Stack ==
    /\ [](\A i, j \in 1..Len(queue) : i < j => queue[i] < queue[j])
    /\ [][IF step' # step
           THEN /\ idx' = queue[Len(queue)]
                /\ queue' = SubSeq(queue, 1, Len(queue) - 1)
                /\ \A i \in 1..Len(queue') : queue'[i] < idx'
           ELSE \/ queue' = queue
                \/ queue' = Append(queue, len(nodes))]_vars

\* The id discovered last has just been popped while older ids wait.
C15_Witness ==
    /\ pc = "check"
    /\ Len(queue) >= 2
    /\ idx = len(nodes) - 1
    /\ idx > queue[Len(queue)]

\* Visits begun are counted by step; the one in progress (or cut short by
\* an abort) is not complete.
CompletedVisits == IF pc \in {"check", "moves", "aborted"} THEN step - 1 ELSE step

QueueInv ==
    /\ \A i, j \in 1..Len(queue) : i # j => queue[i] # queue[j]
    /\ \A i \in 1..Len(queue) : queue[i] < len(nodes)

\* C16 as stated: in every reachable state the work list has no duplicates,
\* its ids are below count(), and the completed visits number count()
\* minus the length of the work list.
C16_AsStated ==
    /\ QueueInv
    /\ CompletedVisits = len(nodes) - Len(queue)

\* C16, amended: the work list has no duplicates and its ids are below
\* count(); an id is pushed exactly when its configuration is interned and
\* never again; count() minus the length of the work list is the number of
\* visits begun, and the number of visits completed whenever no visit is
\* in progress; when generate returns every id has been visited once.
C16_VisitedOnce ==
    /\ [](/\ QueueInv
          /\ step = len(nodes) - Len(queue)
          /\ pc \in {"loop", "returned", "printed"} =>
                CompletedVisits = len(nodes) - Len(queue)
          /\ Ended => queue = <<>> /\ CompletedVisits = len(nodes))
    /\ [][\/ /\ len(nodes') = len(nodes) + 1
             /\ queue' = Append(queue, len(nodes))
          \/ /\ nodes' = nodes
             /\ queue' = queue
          \/ /\ nodes' = nodes
             /\ step' = step + 1
             /\ queue' = SubSeq(queue, 1, Len(queue) - 1)]_vars

\* Between two visits, with visits done and ids waiting.
C16_Witness ==
    /\ pc = "loop"
    /\ CompletedVisits >= 2
    /\ Len(queue) >= 2
    /\ len(nodes) = CompletedVisits + Len(queue)

\* The candidate the visit in progress handles next, and whether it passes
\* the flag, bounds and strip tests.
Candidate ==
    [Config(idx) EXCEPT ![piece_idx + 1] = move_target(Config(idx)[piece_idx + 1], dir)]

CandidateAccepted ==
    /\ pc = "moves"
    /\ move_test(board, Pieces[piece_idx + 1], Config(idx)[piece_idx + 1], dir) = "clear"

KnownCandidate == CandidateAccepted /\ Candidate \in Interned

\* C17: handling a candidate that is already interned, fully visited or
\* not, leaves the interner and the work list unchanged and inserts the
\* pair (smaller id, larger id) of the current id and the candidate's id
\* into the edge set; the edge set never loses an edge, and an edge already
\* in it leaves it unchanged.
C17_KnownCandidate ==
    /\ [][KnownCandidate =>
            LET j == IdOf(Candidate)
                e == IF idx <= j THEN <<idx, j>> ELSE <<j, idx>>
            IN /\ nodes' = nodes
               /\ queue' = queue
               /\ e \in edges'
               /\ edges' \ edges \subseteq {e}
               /\ e \in edges => edges' = edges]_vars
    /\ [][edges \subseteq edges']_vars

\* A candidate that is interned already, reached here along a second path:
\* its edge to the current id is not recorded yet.
C17_Witness ==
    /\ KnownCandidate
    /\ \A e \in edges : {e[1], e[2]} # {idx, IdOf(Candidate)}

\* C18: from a well-formed initial configuration (every piece inside the
\* board, footprints pairwise disjoint) every interned configuration is
\* well-formed, and the board of every visit has as many occupied cells as
\* the initial configuration covers.
C18_WellFormedKept ==
    WellFormed(InitialConfiguration) =>
        /\ \A c \in Interned : WellFormed(c)
        /\ pc \in {"check", "moves"} =>
              /\ occupied_count(board) = Cardinality(Occupied(InitialConfiguration))
              /\ Cardinality(Occupied(Config(idx)))
                    = Cardinality(Occupied(InitialConfiguration))

C18_Witness ==
    /\ WellFormed(InitialConfiguration)
    /\ pc = "moves"
    /\ idx >= 2
    /\ len(nodes) >= 6
    /\ Config(idx) # InitialConfiguration

InBounds(c) == \A i \in PieceIds : InsideBoard(Pieces[i], c[i])

\* The visit in progress calls is_rect_clear for its next candidate: the
\* flag is on and the bounds test is true.
StripTested ==
    /\ pc = "moves"
    /\ move_allowed(Pieces[piece_idx + 1], dir)
    /\ move_in_bounds(board, Pieces[piece_idx + 1], Config(idx)[piece_idx + 1], dir)

Strip == move_strip(Pieces[piece_idx + 1], Config(idx)[piece_idx + 1], dir)

\* C19: from an initial configuration inside the board, every rectangle
\* visit_node passes to is_rect_clear lies inside the board (0 <= x,
\* x + w <= width, 0 <= y, y + h <= height), the horizontal assertion never
\* fails and no index outside the bitmap is read or written.
C19_StripInside ==
    InBounds(InitialConfiguration) =>
        /\ failure \notin {"assert", "index"}
        /\ \A c \in Interned : InBounds(c)
        /\ StripTested =>
              /\ Strip[1][1] >= 0 /\ Strip[1][1] + Strip[2][1] <= Width
              /\ Strip[1][2] >= 0 /\ Strip[1][2] + Strip[2][2] <= Height
              /\ Width = board.width /\ Height = board.height

\* A strip below a piece is tested in a run that started inside the board.
C19_Witness ==
    /\ InBounds(InitialConfiguration)
    /\ StripTested
    /\ dir = 3
    /\ Strip[2][1] >= 2
    /\ Strip[1][2] + Strip[2][2] = Height

\* C20: every interned configuration has one position per piece, in
\* piece-list order (the first is the specification's own positions); a
\* piece whose horizontal flag is off keeps its initial x and a piece whose
\* vertical flag is off keeps its initial y.
C20_FlagsRespected ==
    /\ Config(0) = as_configuration(specification)
    /\ \A i \in PieceIds : Config(0)[i] = Pieces[i].position
    /\ \A c \in Interned :
          /\ DOMAIN c = PieceIds
          /\ \A i \in PieceIds :
                /\ ~Pieces[i].moves[1] => c[i][1] = Pieces[i].position[1]
                /\ ~Pieces[i].moves[2] => c[i][2] = Pieces[i].position[2]

\* A piece that may slide vertically only has left its initial row while a
\* piece that may not slide at all is present.
C20_Witness ==
    /\ \E c \in Interned : \E i \in PieceIds :
          /\ Pieces[i].moves = <<FALSE, TRUE>>
          /\ c[i][2] # Pieces[i].position[2]
    /\ \E i \in PieceIds : Pieces[i].moves = <<FALSE, FALSE>>

====
